---- MODULE Spec2Model ----
(***************************************************************************)
(* A model of the List container of superarray: the traversal primitive    *)
(* each with the operations built on it (find, findIndex), and the sort    *)
(* engine with its seven algorithms, the mutators and length, mode,         *)
(* rotate, combinations, permutations, dotProduct, the each twins of        *)
(* indexOf, lastIndexOf and reverse, and the arrays the container's         *)
(* caller holds (the constructor's argument, the result of toArray).        *)
(*                                                                         *)
(* Indices are 0-based as in the source; At(s, i) reads s[i] the way a     *)
(* JavaScript array does (undefined outside 0..length-1).                  *)
(***************************************************************************)
EXTENDS Integers, Sequences, FiniteSets, TLC

\* ------------------------------------------------------------------ bounds
MaxLen == 4          \* longest container traversed by each
MaxStep == 3         \* largest step option
MaxSortLen == 4      \* longest container handed to sort

\* ---------------------------------------------------------------- elements
\* A JavaScript value held by the container.  A number is kept in halves
\* (v = 2 * value), so 1.5 is a number with v = 3; a string is kept by its
\* rank v in lexicographic order (none of the strings is numeric).
Num(n) == [type |-> "number", v |-> 2 * n]
Half(n) == [type |-> "number", v |-> 2 * n + 1]
Str(n) == [type |-> "string", v |-> n]
Undefined == [type |-> "undefined", v |-> 0]

\* items[i] of a JavaScript array
At(s, i) == IF 0 <= i /\ i < Len(s) THEN s[i + 1] ELSE Undefined

\* All sequences over S of length 0..n
SeqsUpTo(S, n) == UNION {[1..k -> S] : k \in 0..n}

EachElems == {Num(1), Num(2)}
Steps == (0 - 1)..MaxStep
Signals == {"none", "break", "continue", "both"}

\* A traversal that never leaves its loop (step <= 0) is followed for this
\* many iterations.
MaxVisits == MaxLen + 2

VARIABLES
    items,          \* List.items
    pc,             \* "new" (not constructed) | "idle" | "loop" (inside each) | "done"
    op,             \* the running or last operation: "each", "find", ..., or "none"
    reverse,        \* each: options.reverse
    step,           \* each: options.step
    length,         \* each: const length
    i,              \* each: the loop variable
    breakLoop,      \* each: let breakLoop
    continueLoop,   \* each: let continueLoop
    pred,           \* find/findIndex: the indices at which the predicate is truthy
    found,          \* find: let result
    foundIndex,     \* findIndex: let result
    visits,         \* history: one record per iterate(i) of the running traversal
    last,           \* history: the last completed sort call
    call,           \* history: the last completed call of any other method
    argArr,         \* the caller's array handed to new List(arr)
    outArr,         \* the caller's array returned by toArray()
    shared          \* which of the caller's arrays are the very array List.items is

vars == <<items, pc, op, reverse, step, length, i, breakLoop, continueLoop,
          pred, found, foundIndex, visits, last, call, argArr, outArr, shared>>

\* The caller's side of the heap and the call history.
extVars == <<call, argArr, outArr, shared>>

NoSort ==
    [method |-> "none", arg |-> "none", before |-> <<>>, threw |-> FALSE, warned |-> FALSE]

NoCall ==
    [op |-> "none", args |-> <<>>, before |-> <<>>, ret |-> <<>>, threw |-> FALSE,
     argBefore |-> <<>>, outBefore |-> <<>>]

\* No call made yet, and no array of the caller's in sight.
ExtIdle ==
    /\ call = NoCall
    /\ argArr = <<>>
    /\ outArr = <<>>
    /\ shared = {}

\* ------------------------------------------------------------------- each
\* The loop condition of each's two for loops.
LoopCondStrict == IF reverse THEN i > 0 ELSE i < length
LoopCond == IF reverse THEN i >= 0 ELSE i < length

\* An optional index: {} is undefined.
Clamp(j) == IF j >= 0 /\ j < length THEN {j} ELSE {}

\* The context object iterate(i) builds.
Context ==
    LET prevIndex == IF reverse THEN i + step ELSE i - step
        nextIndex == IF reverse THEN i - step ELSE i + step
    IN  [prevIndex |-> Clamp(prevIndex),
         nextIndex |-> Clamp(nextIndex),
         prev |-> At(items, prevIndex),
         next |-> At(items, nextIndex),
         isFirst |-> IF reverse THEN i = length - 1 ELSE i = 0,
         isLast |-> IF reverse THEN i = 0 ELSE i = length - 1]

NoContext ==
    [prevIndex |-> {}, nextIndex |-> {}, prev |-> Undefined, next |-> Undefined,
     isFirst |-> FALSE, isLast |-> FALSE]

Visit(outcome, value, ctx, signal) ==
    [index |-> i, outcome |-> outcome, value |-> value, ctx |-> ctx, signal |-> signal]

\* The entry of each: options destructured, length captured, flags cleared,
\* the loop variable initialised.
Start(o, r, s, p) ==
    /\ pc \in {"idle", "done"}
    /\ op' = o
    /\ reverse' = r
    /\ step' = s
    /\ pred' = p
    /\ length' = Len(items)
    /\ i' = IF r THEN Len(items) - 1 ELSE 0
    /\ breakLoop' = FALSE
    /\ continueLoop' = FALSE
    /\ found' = Undefined
    /\ foundIndex' = 0 - 1
    /\ visits' = <<>>
    /\ pc' = "loop"
    /\ last' = NoSort
    /\ UNCHANGED items
    /\ UNCHANGED extVars

CallEach == \E r \in BOOLEAN, s \in Steps : Start("each", r, s, {})

CallFind ==
    \E r \in BOOLEAN, s \in Steps, p \in SUBSET (0..(Len(items) - 1)) :
        Start("find", r, s, p)

CallFindIndex ==
    \E r \in BOOLEAN, s \in Steps, p \in SUBSET (0..(Len(items) - 1)) :
        Start("findIndex", r, s, p)

\* The signals the callback of the running operation may raise on this visit:
\* any for a caller's callback, breakFn on a match for find and findIndex.
CallbackSignalsNoBreak == IF op = "each" THEN Signals ELSE {"none"}
CallbackSignals ==
    IF op = "each" THEN Signals
    ELSE IF i \in pred THEN {"break"} ELSE {"none"}

\* The loop's increment: i -= step in reverse, i += step otherwise.
Advance == i' = IF reverse THEN i - step ELSE i + step

\* What the callback's use of context.breakFn leaves in breakLoop.
BreakFnUnset(sig, flag) == flag
BreakFn(sig, flag) == IF sig \in {"break", "both"} THEN TRUE ELSE flag

\* What the callback's use of context.continueFn leaves in continueLoop.
ContinueFnUnset(sig, flag) == flag
ContinueFn(sig, flag) == IF sig \in {"continue", "both"} THEN TRUE ELSE flag

\* One iteration of the for loop: iterate(i), then the loop's increment.
Iterate ==
    /\ pc = "loop"
    /\ LoopCond
    /\ Len(visits) < MaxVisits
    /\ Advance
    /\ IF breakLoop
         THEN /\ visits' = Append(visits, Visit("halted", Undefined, NoContext, "none"))
              /\ UNCHANGED <<breakLoop, continueLoop, found, foundIndex>>
       ELSE IF continueLoop
         THEN /\ continueLoop' = FALSE
              /\ visits' = Append(visits, Visit("skipped", Undefined, NoContext, "none"))
              /\ UNCHANGED <<breakLoop, found, foundIndex>>
       ELSE \E sig \in CallbackSignals :
              /\ visits' = Append(visits, Visit("called", At(items, i), Context, sig))
              /\ breakLoop' = BreakFn(sig, breakLoop)
              /\ continueLoop' = ContinueFn(sig, continueLoop)
              /\ found' = IF op = "find" /\ i \in pred THEN At(items, i) ELSE found
              /\ foundIndex' = IF op = "findIndex" /\ i \in pred THEN i ELSE foundIndex
    /\ UNCHANGED <<items, op, reverse, step, length, pred, pc, last>>
    /\ UNCHANGED extVars

\* The for loop's condition fails: each returns (find and findIndex return
\* their result).
Return ==
    /\ pc = "loop"
    /\ ~LoopCond
    /\ pc' = "done"
    /\ UNCHANGED <<items, op, reverse, step, length, i, breakLoop, continueLoop,
                   pred, found, foundIndex, visits, last>>
    /\ UNCHANGED extVars

Init ==
    /\ items \in SeqsUpTo(EachElems, MaxLen)
    /\ pc = "idle"
    /\ op = "none"
    /\ reverse = FALSE
    /\ step = 1
    /\ length = 0
    /\ i = 0
    /\ breakLoop = FALSE
    /\ continueLoop = FALSE
    /\ pred = {}
    /\ found = Undefined
    /\ foundIndex = 0 - 1
    /\ visits = <<>>
    /\ last = NoSort
    /\ ExtIdle

Next == CallEach \/ CallFind \/ CallFindIndex \/ Iterate \/ Return

Spec == Init /\ [][Next]_vars

\* =================================================================== sort
\* The first argument of sort: a direction token or a comparison function.
\* The comparison functions handed to sort are
\*   "fnDesc": (a, b) => (a > b ? -1 : a < b ? 1 : 0)
\*   "fnBig":  (a, b) => Number(a >= 10) - Number(b >= 10)
Directions == {"asc", "desc"}
Functions == {"fnDesc", "fnBig"}
Methods == {"merge", "quick", "bubble", "insertion", "selection", "heap", "radix"}
Radix == 10

SortElems == {Num(0), Num(2), Num(10), Num(0 - 1), Half(1), Str(1)}

\* JavaScript's a < b on two elements: numbers by value, strings
\* lexicographically; a non-numeric string against a number is NaN against a
\* number, which is false.
Less(a, b) ==
    /\ a.type = b.type
    /\ a.type \in {"number", "string"}
    /\ a.v < b.v

Sign(n) == IF n < 0 THEN 0 - 1 ELSE IF n > 0 THEN 1 ELSE 0

\* a >= 10 as a number (0 or 1)
Big(a) == IF a.type = "number" /\ a.v >= 2 * Radix THEN 1 ELSE 0

\* The comparator of getDefaultCompare(direction); the difference of two
\* numbers is returned in halves (only its sign is ever used).
GetDefaultCompare(direction, a, b) ==
    IF a.type = "number" /\ b.type = "number"
      THEN IF direction = "asc" THEN a.v - b.v ELSE b.v - a.v
    ELSE IF Less(a, b) THEN (IF direction = "asc" THEN 0 - 1 ELSE 1)
    ELSE IF Less(b, a) THEN (IF direction = "asc" THEN 1 ELSE 0 - 1)
    ELSE 0

\* compareFunction(a, b) for the comparator chosen by sort's first argument c.
Compare(c, a, b) ==
    IF c \in Directions THEN GetDefaultCompare(c, a, b)
    ELSE IF c = "fnDesc" THEN (IF Less(b, a) THEN 0 - 1 ELSE IF Less(a, b) THEN 1 ELSE 0)
    ELSE Big(a) - Big(b)

\* 0-based access to an array held as a sequence.
Get(s, k) == s[k + 1]
Set(s, k, x) == [s EXCEPT ![k + 1] = x]
Swap(s, j, k) == [s EXCEPT ![j + 1] = s[k + 1], ![k + 1] = s[j + 1]]
Slice(s, from, to) == SubSeq(s, from + 1, to)

\* ---- merge
RECURSIVE MergeLoopStrict(_, _, _, _, _, _)
MergeLoopStrict(left, right, leftIndex, rightIndex, result, c) ==
    IF leftIndex < Len(left) /\ rightIndex < Len(right)
      THEN IF Compare(c, Get(left, leftIndex), Get(right, rightIndex)) < 0
             THEN MergeLoopStrict(left, right, leftIndex + 1, rightIndex,
                                  Append(result, Get(left, leftIndex)), c)
             ELSE MergeLoopStrict(left, right, leftIndex, rightIndex + 1,
                                  Append(result, Get(right, rightIndex)), c)
      ELSE result \o Slice(left, leftIndex, Len(left)) \o Slice(right, rightIndex, Len(right))
RECURSIVE MergeLoop(_, _, _, _, _, _)
MergeLoop(left, right, leftIndex, rightIndex, result, c) ==
    IF leftIndex < Len(left) /\ rightIndex < Len(right)
      THEN IF Compare(c, Get(left, leftIndex), Get(right, rightIndex)) <= 0
             THEN MergeLoop(left, right, leftIndex + 1, rightIndex,
                            Append(result, Get(left, leftIndex)), c)
             ELSE MergeLoop(left, right, leftIndex, rightIndex + 1,
                            Append(result, Get(right, rightIndex)), c)
      ELSE result \o Slice(left, leftIndex, Len(left)) \o Slice(right, rightIndex, Len(right))

Merge(left, right, c) == MergeLoop(left, right, 0, 0, <<>>, c)

RECURSIVE MergeSort(_, _)
MergeSort(arr, c) ==
    IF Len(arr) <= 1 THEN arr
    ELSE LET mid == Len(arr) \div 2
             left == Slice(arr, 0, mid)
             right == Slice(arr, mid, Len(arr))
         IN  Merge(MergeSort(left, c), MergeSort(right, c), c)

\* ---- quick (Lomuto partition, pivot = last element)
\* The for loop of sortPartition from j on; yields the array and i.
RECURSIVE PartitionLoop(_, _, _, _, _, _)
PartitionLoop(s, pivot, i0, j, high, c) ==
    IF j < high
      THEN IF Compare(c, Get(s, j), pivot) <= 0
             THEN PartitionLoop(Swap(s, i0 + 1, j), pivot, i0 + 1, j + 1, high, c)
             ELSE PartitionLoop(s, pivot, i0, j + 1, high, c)
      ELSE [arr |-> s, i |-> i0]

SortPartition(s, low, high, c) ==
    LET r == PartitionLoop(s, Get(s, high), low - 1, low, high, c)
    IN  [arr |-> Swap(r.arr, r.i + 1, high), pivotIndex |-> r.i + 1]

RECURSIVE QuickSort(_, _, _, _)
QuickSort(s, low, high, c) ==
    IF low < high
      THEN LET p == SortPartition(s, low, high, c)
           IN  QuickSort(QuickSort(p.arr, low, p.pivotIndex - 1, c), p.pivotIndex + 1, high, c)
      ELSE s

\* ---- bubble
RECURSIVE BubbleInner(_, _, _, _, _)
BubbleInner(s, n, i0, j, c) ==
    IF j < n - i0 - 1
      THEN IF Compare(c, Get(s, j), Get(s, j + 1)) > 0
             THEN BubbleInner(Swap(s, j, j + 1), n, i0, j + 1, c)
             ELSE BubbleInner(s, n, i0, j + 1, c)
      ELSE s

RECURSIVE BubbleOuter(_, _, _, _)
BubbleOuter(s, n, i0, c) ==
    IF i0 < n - 1 THEN BubbleOuter(BubbleInner(s, n, i0, 0, c), n, i0 + 1, c) ELSE s

BubbleSort(s, c) == BubbleOuter(s, Len(s), 0, c)

\* ---- insertion
\* The while loop of insertionSort; ends with items[j + 1] = key.
RECURSIVE InsertionShift(_, _, _, _)
InsertionShift(s, key, j, c) ==
    IF j >= 0 /\ Compare(c, Get(s, j), key) > 0
      THEN InsertionShift(Set(s, j + 1, Get(s, j)), key, j - 1, c)
      ELSE Set(s, j + 1, key)

RECURSIVE InsertionOuter(_, _, _, _)
InsertionOuter(s, n, i0, c) ==
    IF i0 < n
      THEN InsertionOuter(InsertionShift(s, Get(s, i0), i0 - 1, c), n, i0 + 1, c)
      ELSE s

InsertionSort(s, c) == InsertionOuter(s, Len(s), 1, c)

\* ---- selection
RECURSIVE SelectionMin(_, _, _, _, _)
SelectionMin(s, n, minIndex, j, c) ==
    IF j < n
      THEN IF Compare(c, Get(s, j), Get(s, minIndex)) < 0
             THEN SelectionMin(s, n, j, j + 1, c)
             ELSE SelectionMin(s, n, minIndex, j + 1, c)
      ELSE minIndex

RECURSIVE SelectionOuter(_, _, _, _)
SelectionOuter(s, n, i0, c) ==
    IF i0 < n - 1
      THEN LET minIndex == SelectionMin(s, n, i0, i0 + 1, c)
           IN  SelectionOuter(IF minIndex # i0 THEN Swap(s, i0, minIndex) ELSE s,
                              n, i0 + 1, c)
      ELSE s

SelectionSort(s, c) == SelectionOuter(s, Len(s), 0, c)

\* ---- heap
RECURSIVE Heapify(_, _, _, _)
Heapify(s, n, i0, c) ==
    LET left == 2 * i0 + 1
        right == 2 * i0 + 2
        l1 == IF left < n /\ Compare(c, Get(s, left), Get(s, i0)) > 0 THEN left ELSE i0
        largest == IF right < n /\ Compare(c, Get(s, right), Get(s, l1)) > 0
                     THEN right ELSE l1
    IN  IF largest # i0 THEN Heapify(Swap(s, i0, largest), n, largest, c) ELSE s

RECURSIVE HeapBuild(_, _, _, _)
HeapBuild(s, n, i0, c) ==
    IF i0 >= 0 THEN HeapBuild(Heapify(s, n, i0, c), n, i0 - 1, c) ELSE s

RECURSIVE HeapExtract(_, _, _)
HeapExtract(s, i0, c) ==
    IF i0 > 0 THEN HeapExtract(Heapify(Swap(s, 0, i0), i0, 0, c), i0 - 1, c) ELSE s

HeapSort(s, c) ==
    LET n == Len(s) IN HeapExtract(HeapBuild(s, n, (n \div 2) - 1, c), n - 1, c)

\* ---- radix
IsRadixSortableAnySign(s) ==
    \A k \in 1..Len(s) : s[k].type = "number" /\ s[k].v % 2 = 0
IsRadixSortable(s) ==
    \A k \in 1..Len(s) : s[k].type = "number" /\ s[k].v >= 0 /\ s[k].v % 2 = 0

RECURSIVE NumDigits(_)
NumDigits(n) == IF n < Radix THEN 1 ELSE 1 + NumDigits(n \div Radix)

MaxV(s) == CHOOSE m \in {s[k].v : k \in 1..Len(s)} : \A k \in 1..Len(s) : s[k].v <= m

\* Math.floor(Math.log10(Math.max(...items))) + 1, as the bound of the digit
\* loop: Math.max is -Infinity for no items and NaN with a non-numeric item,
\* and log10 of a value below 1 gives NaN, -Infinity or a negative number;
\* in each of these cases the loop body never runs.
MaxDigits(s) ==
    IF s = <<>> \/ \E k \in 1..Len(s) : s[k].type # "number" THEN 0
    ELSE IF MaxV(s) < 2 THEN 0
    ELSE NumDigits(MaxV(s) \div 2)

\* Math.floor((item / Math.pow(10, digit)) % 10): % keeps the sign of the
\* dividend, so a negative item gives a negative digit unless the remainder
\* is zero.  A non-number gives NaN, no index of buckets (written -1 here).
DigitValue(item, digit) ==
    LET D == 2 * (Radix ^ digit)
    IN  IF item.type # "number" THEN 0 - 1
        ELSE IF item.v >= 0 THEN (item.v \div D) % Radix
        ELSE 0 - ((((0 - item.v) % (Radix * D)) + D - 1) \div D)

Bucket(s, digit, d) == SelectSeq(s, LAMBDA x : DigitValue(x, digit) = d)

\* buckets.flat() from bucket d on ('asc'), buckets.reverse().flat() from
\* bucket d down ('desc').
RECURSIVE AscFrom(_, _, _)
AscFrom(s, digit, d) ==
    IF d >= Radix THEN <<>> ELSE Bucket(s, digit, d) \o AscFrom(s, digit, d + 1)
FlatAlwaysAsc(s, digit, d, direction) == AscFrom(s, digit, 0)
RECURSIVE Flat(_, _, _, _)
Flat(s, digit, d, direction) ==
    IF direction = "asc"
      THEN IF d >= Radix THEN <<>>
           ELSE Bucket(s, digit, d) \o Flat(s, digit, d + 1, direction)
      ELSE IF d < 0 THEN <<>>
           ELSE Bucket(s, digit, d) \o Flat(s, digit, d - 1, direction)

\* The first bucket of the flattening.
FirstBucket(direction) == IF direction = "asc" THEN 0 ELSE Radix - 1

\* The digit loop of radixSort: buckets[digitValue].push throws a TypeError
\* when digitValue is no index of buckets, leaving this.items as the last
\* completed pass left it.
RECURSIVE RadixLoop(_, _, _, _)
RadixLoop(s, digit, maxDigits, direction) ==
    IF digit < maxDigits
      THEN IF \E k \in 1..Len(s) : DigitValue(s[k], digit) \notin 0..(Radix - 1)
             THEN [items |-> s, threw |-> TRUE]
             ELSE RadixLoop(Flat(s, digit, FirstBucket(direction), direction),
                            digit + 1, maxDigits, direction)
      ELSE [items |-> s, threw |-> FALSE]

RadixSort(s, direction) ==
    IF ~IsRadixSortable(s) THEN [items |-> s, threw |-> TRUE]
    ELSE RadixLoop(s, 0, MaxDigits(s), direction)

\* ---- the default method: Array.prototype.sort
\* The comparator is consistent on the elements of s: it splits them into
\* equivalence classes that it orders totally.
Consistent(c, s) ==
    LET S == {s[k] : k \in 1..Len(s)}
    IN  /\ \A a, b \in S : Sign(Compare(c, a, b)) = 0 - Sign(Compare(c, b, a))
        /\ \A a, b, d \in S :
              /\ (Compare(c, a, b) < 0 /\ Compare(c, b, d) < 0) => Compare(c, a, d) < 0
              /\ Compare(c, a, b) = 0 => Sign(Compare(c, a, d)) = Sign(Compare(c, b, d))

Remove(s, k) == SubSeq(s, 1, k - 1) \o SubSeq(s, k + 1, Len(s))

\* The stable sort of s: the first of the least elements, then the rest.
RECURSIVE StableSort(_, _)
StableSort(s, c) ==
    IF s = <<>> THEN <<>>
    ELSE LET least == {k \in 1..Len(s) : \A j \in 1..Len(s) : Compare(c, s[k], s[j]) <= 0}
             k == CHOOSE k \in least : \A j \in least : k <= j
         IN  <<s[k]>> \o StableSort(Remove(s, k), c)

Reorderings(s) ==
    LET n == Len(s)
        P == {p \in [1..n -> 1..n] : \A j, k \in 1..n : p[j] = p[k] => j = k}
    IN  {[k \in 1..n |-> s[p[k]]] : p \in P}

\* The arrays items.sort(compareFunction) may leave: the stable sort for a
\* consistent comparator (ECMAScript 2019), an implementation-defined order of
\* the same elements otherwise.
NativeSort(s, c) == IF Consistent(c, s) THEN {StableSort(s, c)} ELSE Reorderings(s)

\* ---- sort(directionOrCompare, method)
Plain(arr) == {[items |-> arr, threw |-> FALSE, warned |-> FALSE]}

\* The outcomes of sort on the array s.
SortOutcomes(s, directionOrCompare, method) ==
    LET direction == IF directionOrCompare \in Functions THEN "asc" ELSE directionOrCompare
        c == directionOrCompare
    IN  CASE method = "merge" -> Plain(MergeSort(s, c))
          [] method = "quick" -> Plain(QuickSort(s, 0, Len(s) - 1, c))
          [] method = "bubble" -> Plain(BubbleSort(s, c))
          [] method = "insertion" -> Plain(InsertionSort(s, c))
          [] method = "selection" -> Plain(SelectionSort(s, c))
          [] method = "heap" -> Plain(HeapSort(s, c))
          [] method = "radix" ->
                IF IsRadixSortable(s)
                  THEN LET r == RadixSort(s, direction)
                       IN  {[items |-> r.items, threw |-> r.threw, warned |-> FALSE]}
                  ELSE {[items |-> QuickSort(s, 0, Len(s) - 1, c),
                         threw |-> FALSE, warned |-> TRUE]}
          [] OTHER -> {[items |-> t, threw |-> FALSE, warned |-> FALSE] :
                          t \in NativeSort(s, c)}

Sort ==
    /\ pc = "idle"
    /\ \E directionOrCompare \in Directions \cup Functions,
          method \in Methods \cup {"default"} :
          \E r \in SortOutcomes(items, directionOrCompare, method) :
              /\ items' = r.items
              /\ last' = [method |-> method, arg |-> directionOrCompare, before |-> items,
                          threw |-> r.threw, warned |-> r.warned]
    /\ pc' = "done"
    /\ op' = "sort"
    /\ UNCHANGED <<reverse, step, length, i, breakLoop, continueLoop,
                   pred, found, foundIndex, visits>>
    /\ UNCHANGED extVars

SortInit ==
    /\ items \in SeqsUpTo(SortElems, MaxSortLen)
    /\ pc = "idle"
    /\ op = "none"
    /\ reverse = FALSE
    /\ step = 1
    /\ length = 0
    /\ i = 0
    /\ breakLoop = FALSE
    /\ continueLoop = FALSE
    /\ pred = {}
    /\ found = Undefined
    /\ foundIndex = 0 - 1
    /\ visits = <<>>
    /\ last = NoSort
    /\ ExtIdle

SortNext == Sort

SortSpec == SortInit /\ [][SortNext]_vars

\* ===================================================== properties of each
\* The traversal order the options ask for, for step >= 1: the number of
\* scheduled indices and the k-th of them (k = 1, 2, ...).
NSched == IF length = 0 THEN 0 ELSE ((length - 1) \div step) + 1
SchedIndex(k) == IF reverse THEN length - 1 - (k - 1) * step ELSE (k - 1) * step

InEach == pc \in {"loop", "done"} /\ op \in {"each", "find", "findIndex"}
Called(k) == visits[k].outcome = "called"
NoSignals == \A k \in 1..Len(visits) : visits[k].signal = "none"

\* C1: with step >= 1 and no control signal raised, each invokes the callback
\* once per scheduled index, in traversal order (0, step, 2*step, ... forward;
\* length-1, length-1-step, ... in reverse), passing the element stored at
\* that index; when each has returned every scheduled index has been visited,
\* and with step 1 these are all the live elements.
C1_VisitsInOrder ==
    (InEach /\ step >= 1 /\ NoSignals) =>
        /\ Len(visits) <= NSched
        /\ \A k \in 1..Len(visits) :
              /\ Called(k)
              /\ visits[k].index = SchedIndex(k)
              /\ visits[k].index \in 0..(Len(items) - 1)
              /\ visits[k].value = items[visits[k].index + 1]
        /\ pc = "done" =>
              /\ Len(visits) = NSched
              /\ step = 1 =>
                    \A j \in 0..(Len(items) - 1) :
                        Cardinality({k \in 1..Len(visits) : visits[k].index = j}) = 1

C1_Witness ==
    /\ pc = "done" /\ op = "each" /\ reverse /\ step = 2 /\ NoSignals
    /\ Len(items) = 4
    /\ Len(visits) = 2 /\ visits[1].index = 3 /\ visits[2].index = 1

\* C2: once a callback invocation has called breakFn, that invocation is
\* still recorded as a completed call and the callback is not invoked for any
\* later index of the traversal, in either direction and for any step >= 1.
C2_BreakStopsVisits ==
    (InEach /\ step >= 1) =>
        \A j \in 1..Len(visits) :
            (Called(j) /\ visits[j].signal \in {"break", "both"}) =>
                /\ breakLoop
                /\ \A k \in (j + 1)..Len(visits) : ~Called(k)

C2_Witness ==
    /\ pc = "done" /\ op = "each" /\ step = 1 /\ Len(items) = 4
    /\ Len(visits) = 4
    /\ Called(2) /\ visits[2].signal = "break"
    /\ ~Called(3) /\ ~Called(4)

\* C3: when a callback invocation calls continueFn and not breakFn, the
\* callback is not invoked for the next scheduled index, the flag is cleared
\* by that skipped visit, and the scheduled index after the skipped one is
\* visited normally; a continueFn in the last scheduled visit skips nothing
\* (every iteration of the loop is one scheduled index, and each returns
\* after the last of them).
C3_ContinueSkipsNext ==
    (InEach /\ step >= 1) =>
        /\ Len(visits) <= NSched
        /\ \A k \in 1..Len(visits) : visits[k].index = SchedIndex(k)
        /\ \A k \in 1..Len(visits) :
              (Called(k) /\ visits[k].signal = "continue" /\ k < Len(visits)) =>
                  /\ visits[k + 1].outcome = "skipped"
                  /\ (k + 1 = Len(visits)) => ~continueLoop
                  /\ (k + 2 <= Len(visits)) => Called(k + 2)
        /\ \A k \in 1..Len(visits) :
              visits[k].outcome = "skipped" =>
                  k > 1 /\ Called(k - 1) /\ visits[k - 1].signal = "continue"
        /\ pc = "done" => Len(visits) = NSched

C3_Witness ==
    /\ pc = "done" /\ op = "each" /\ ~reverse /\ step = 1 /\ Len(items) = 4
    /\ Len(visits) = 4
    /\ Called(1) /\ visits[1].signal = "continue"
    /\ visits[2].outcome = "skipped" /\ visits[2].index = 1
    /\ Called(3) /\ visits[3].signal = "none"
    /\ Called(4) /\ visits[4].signal = "continue"

\* C4: in a traversal of a non-empty container with no control signals and
\* step >= 1, isFirst is true on exactly the first visited element and isLast
\* on exactly the last visited element.
C4_FirstLastFlags ==
    (InEach /\ step >= 1 /\ NoSignals /\ length > 0) =>
        \A k \in 1..Len(visits) :
            /\ visits[k].ctx.isFirst <=> (k = 1)
            /\ visits[k].ctx.isLast <=> (k = NSched)

\* C5: for every integer step, 0 and negative values included, each invokes
\* the callback at most once per live element and then returns.
C5_TerminatesForEveryStep ==
    InEach => Cardinality({k \in 1..Len(visits) : Called(k)}) <= Len(items)

\* The first position of the schedule whose index satisfies the predicate
\* (0 when none does).
Matches == {k \in 1..NSched : SchedIndex(k) \in pred}
FirstMatch == IF Matches = {} THEN 0 ELSE CHOOSE k \in Matches : \A m \in Matches : k <= m

\* C6: find returns the value, and findIndex the index, of the first element
\* in traversal order that satisfies the predicate (undefined / -1 when no
\* visited element does), and the predicate is never invoked on an element
\* scheduled after that first match.
C6_FindFirstMatch ==
    (InEach /\ op \in {"find", "findIndex"} /\ step >= 1) =>
        /\ \A k \in 1..Len(visits) :
              Called(k) => (FirstMatch = 0 \/ k <= FirstMatch)
        /\ (pc = "done" /\ op = "find") =>
              found = IF FirstMatch = 0 THEN Undefined
                      ELSE items[SchedIndex(FirstMatch) + 1]
        /\ (pc = "done" /\ op = "findIndex") =>
              foundIndex = IF FirstMatch = 0 THEN 0 - 1 ELSE SchedIndex(FirstMatch)

C6_Witness ==
    /\ pc = "done" /\ op = "find" /\ reverse /\ step = 2
    /\ items = <<Num(1), Num(2), Num(1), Num(2)>>
    /\ pred = {0, 1, 2}
    /\ found = Num(2)
    /\ Len(visits) = 2 /\ Called(1) /\ Called(2)

\* ===================================================== properties of sort
SortDone == pc = "done" /\ op = "sort"

NonNegInt(x) == x.type = "number" /\ x.v >= 0 /\ x.v % 2 = 0
AllNonNegInt(s) == \A k \in 1..Len(s) : NonNegInt(s[k])

Count(s, x) == Cardinality({k \in 1..Len(s) : s[k] = x})
SameElements(s, t) ==
    /\ Len(s) = Len(t)
    /\ \A k \in 1..Len(s) : Count(s, s[k]) = Count(t, s[k])

\* Numbers in non-decreasing ('asc') or non-increasing ('desc') order.
Ordered(s, direction) ==
    \A k \in 1..(Len(s) - 1) :
        IF direction = "asc" THEN s[k].v <= s[k + 1].v ELSE s[k].v >= s[k + 1].v

\* C7: on a container of non-negative integers, sort(direction, method) with
\* each of the seven methods leaves exactly the sequence sort(direction)
\* leaves with the default method: the input's elements in non-decreasing
\* order for 'asc' and in non-increasing order for 'desc'.
C7_MethodsAgreeWithDefault ==
    (SortDone /\ last.arg \in Directions /\ AllNonNegInt(last.before)) =>
        /\ ~last.threw
        /\ NativeSort(last.before, last.arg) = {items}
        /\ SameElements(items, last.before)
        /\ Ordered(items, last.arg)

C7_Witness ==
    /\ SortDone /\ last.method = "radix" /\ last.arg = "desc"
    /\ last.before = <<Num(2), Num(10), Num(0), Num(10)>>
    /\ items = <<Num(10), Num(10), Num(2), Num(0)>>

\* C8: when the first argument of sort is a comparison function, the order is
\* the comparator's for every method, 'radix' included: on a container of
\* non-negative integers every adjacent pair (a, b) of the result has
\* cmp(a, b) <= 0.
C8_ComparatorDecidesOrder ==
    (SortDone /\ last.arg \in Functions /\ AllNonNegInt(last.before)) =>
        \A k \in 1..(Len(items) - 1) : Compare(last.arg, items[k], items[k + 1]) <= 0

\* The elements x and y keep in t the relative order they have in s.
KeepOrder(s, t, x, y) ==
    SelectSeq(t, LAMBDA e : e \in {x, y}) = SelectSeq(s, LAMBDA e : e \in {x, y})

\* Any two elements of s that compare equal keep their relative order in t.
Stable(c, s, t) ==
    \A j, k \in 1..Len(s) :
        (s[j] # s[k] /\ Compare(c, s[j], s[k]) = 0) => KeepOrder(s, t, s[j], s[k])

\* C9 as stated: merge, bubble and insertion are stable for every container
\* and every comparator.
C9_StableForEveryComparator ==
    (SortDone /\ last.method \in {"merge", "bubble", "insertion"}) =>
        Stable(last.arg, last.before, items)

\* C9 as amended: bubble and insertion are stable for every container and
\* every comparator; merge is stable for every comparator that is consistent
\* on the container's elements (comparing equal is transitive and agrees with
\* the order), which the default comparator is not on a container that mixes
\* numbers with non-numeric strings.
C9_StableForConsistentComparator ==
    (/\ SortDone
     /\ \/ last.method \in {"bubble", "insertion"}
        \/ last.method = "merge" /\ Consistent(last.arg, last.before)) =>
        /\ Stable(last.arg, last.before, items)
        /\ SameElements(items, last.before)

C9_Witness ==
    /\ SortDone /\ last.method = "merge" /\ last.arg = "fnBig"
    /\ last.before = <<Num(10), Num(2), Num(0), Num(2)>>
    /\ items = <<Num(2), Num(0), Num(2), Num(10)>>

\* C10: sort with method 'radix' on a container holding an element that is
\* not a non-negative integer (negative, fractional or non-numeric) raises no
\* error, logs the warning and leaves the container exactly as the same call
\* with method 'quick' leaves it.
C10_RadixFallsBackToQuick ==
    (SortDone /\ last.method = "radix" /\ ~AllNonNegInt(last.before)) =>
        /\ ~last.threw
        /\ last.warned
        /\ SortOutcomes(last.before, last.arg, "quick")
              = {[items |-> items, threw |-> FALSE, warned |-> FALSE]}

C10_Witness ==
    /\ SortDone /\ last.method = "radix" /\ last.arg = "asc" /\ ~last.threw
    /\ last.before = <<Num(10), Half(1), Num(0 - 1), Num(2)>>
    /\ items = <<Num(0 - 1), Half(1), Num(2), Num(10)>>

\* ======================================================= the List methods
MaxListLen == 4      \* longest container the other methods are called on

ListElems == {Num(1), Num(2), Str(1)}

\* A call returns: the call is recorded with the arrays as they were before
\* it.  A method that writes into the array of List.items (inPlace) writes
\* into every array that is that array; one that assigns this.items a new
\* array leaves the old one to whoever else holds it.
Complete(o, a, newItems, inPlace, r, t) ==
    /\ items' = newItems
    /\ argArr' = IF inPlace /\ "arg" \in shared THEN newItems ELSE argArr
    /\ outArr' = IF inPlace /\ "out" \in shared THEN newItems ELSE outArr
    /\ shared' = IF inPlace THEN shared ELSE {}
    /\ call' = [op |-> o, args |-> a, before |-> items, ret |-> r, threw |-> t,
                argBefore |-> argArr, outBefore |-> outArr]
    /\ pc' = "done"
    /\ op' = o
    /\ UNCHANGED <<reverse, step, length, i, breakLoop, continueLoop,
                   pred, found, foundIndex, visits, last>>

\* A getter or a method that only reads.
Answer(o, a, r) == Complete(o, a, items, TRUE, r, FALSE)

\* The caller goes on to its next call.
Again ==
    /\ pc = "done"
    /\ op \notin {"each", "find", "findIndex", "sort"}
    /\ pc' = "idle"
    /\ op' = "none"
    /\ call' = NoCall
    /\ UNCHANGED <<items, reverse, step, length, i, breakLoop, continueLoop,
                   pred, found, foundIndex, visits, last, argArr, outArr, shared>>

\* ------------------------------------------------------------------- mode
\* counts.get(item) || 0
CountOf(counts, item) == IF item \in DOMAIN counts THEN counts[item] ELSE 0

\* The for-of loop of get mode, from the k-th element (1-based) on.
RECURSIVE ModeLoop(_, _, _, _, _)
ModeLoop(s, k, counts, maxCount, modeValue) ==
    IF k > Len(s) THEN modeValue
    ELSE LET item == s[k]
             count == CountOf(counts, item) + 1
             counts2 == [x \in DOMAIN counts \cup {item} |->
                            IF x = item THEN count ELSE counts[x]]
         IN  IF count > maxCount
               THEN ModeLoop(s, k + 1, counts2, count, item)
               ELSE ModeLoop(s, k + 1, counts2, maxCount, modeValue)

Mode(s) == ModeLoop(s, 1, <<>>, 0, Undefined)

GetMode ==
    /\ pc = "idle"
    /\ Answer("mode", <<>>, Mode(items))

\* ---- C11
ModeCalled == pc = "done" /\ op = "mode"

\* The greatest occurrence count in s, the elements that have it, and the
\* index (0-based) of an element's first occurrence.
MaxCount(s) == CHOOSE n \in 0..Len(s) :
                   /\ \A k \in 1..Len(s) : Count(s, s[k]) <= n
                   /\ (s = <<>> \/ \E k \in 1..Len(s) : Count(s, s[k]) = n)
MostFrequent(s) == {s[k] : k \in {j \in 1..Len(s) : Count(s, s[j]) = MaxCount(s)}}
FirstOccurrence(s, x) == CHOOSE k \in 0..(Len(s) - 1) :
                             /\ s[k + 1] = x
                             /\ \A j \in 0..(k - 1) : s[j + 1] # x

\* C11: mode returns, among the elements whose occurrence count is the
\* greatest, the one whose first occurrence has the lowest index; for an empty
\* container it returns undefined.
C11_ModeIsFirstOccurringMostFrequent ==
    ModeCalled =>
        IF call.before = <<>> THEN call.ret = Undefined
        ELSE /\ call.ret \in MostFrequent(call.before)
             /\ \A y \in MostFrequent(call.before) :
                    FirstOccurrence(call.before, call.ret) <= FirstOccurrence(call.before, y)

\* ----------------------------------------------------------------- rotate
\* The JavaScript remainder k % n (n > 0): it has the sign of k.
JsRem(k, n) == IF k >= 0 THEN k % n ELSE 0 - ((0 - k) % n)

Min(a, b) == IF a <= b THEN a ELSE b
Max(a, b) == IF a >= b THEN a ELSE b

\* A relative index of slice, splice and fill: a negative one counts from
\* the end, and both kinds are clamped to 0..n.
RelIndex(n, idx) == IF idx < 0 THEN Max(n + idx, 0) ELSE Min(idx, n)

\* s.slice(start, end) and s.slice(start)
JsSlice(s, start, end) ==
    LET from == RelIndex(Len(s), start)
        to == RelIndex(Len(s), end)
    IN  IF from < to THEN SubSeq(s, from + 1, to) ELSE <<>>
JsSliceFrom(s, start) == JsSlice(s, start, Len(s))

RotatedLeft(s, k) ==
    IF Len(s) = 0 THEN s
    ELSE LET k1 == JsRem(k, Len(s))
             k2 == IF k1 < 0 THEN k1 + Len(s) ELSE k1
         IN  JsSliceFrom(s, k2) \o JsSlice(s, 0, k2)
\* The array rotate(k) leaves in this.items.
Rotated(s, k) ==
    IF Len(s) = 0 THEN s
    ELSE LET k1 == JsRem(k, Len(s))
             k2 == IF k1 < 0 THEN k1 + Len(s) ELSE k1
         IN  JsSliceFrom(s, 0 - k2) \o JsSlice(s, 0, 0 - k2)

\* The arguments of rotate tried on containers of up to n elements.
RotateArgs(n) == (0 - 2 * n)..(2 * n)

\* rotate assigns this.items a new array, except on an empty container.
RotateOn(n) ==
    /\ pc = "idle"
    /\ \E k \in RotateArgs(n) :
          Complete("rotate", [k |-> k], Rotated(items, k), Len(items) = 0, "this", FALSE)

Rotate == RotateOn(MaxListLen)

\* ---- C12
RotateCalled == pc = "done" /\ op = "rotate"

\* C12: rotate(k) on a non-empty container moves the element at index i to
\* index (i + k) mod length, for every integer k (negative, or larger in
\* magnitude than the length); rotate(length - k) after it restores the
\* original order; an empty container stays empty.
C12_RotateShiftsRight ==
    RotateCalled =>
        LET n == Len(call.before)
            k == call.args.k
        IN  /\ Len(items) = n
            /\ \A idx \in 0..(n - 1) : At(items, (idx + k) % n) = At(call.before, idx)
            /\ Rotated(items, n - k) = call.before

C12_Witness ==
    /\ RotateCalled
    /\ call.before = <<Num(1), Num(2), Str(1)>>
    /\ call.args.k = 0 - 4
    /\ items = <<Num(2), Str(1), Num(1)>>

\* ----------------------------------------------------------- the mutators
MaxArgs == 2         \* most elements handed to one push or unshift

\* The index arguments tried on containers of up to n elements: in range,
\* beyond either end, negative.
IndexArgs(n) == (0 - (n + 1))..(n + 1)

SpliceInRange(s, start, deleteCount, elements) ==
    IF start < 0 \/ start > Len(s) THEN [items |-> s, removed |-> <<>>]
    ELSE LET count == Min(Max(deleteCount, 0), Len(s) - start)
         IN  [items |-> SubSeq(s, 1, start) \o elements \o SubSeq(s, start + count + 1, Len(s)),
              removed |-> SubSeq(s, start + 1, start + count)]
\* s.splice(start, deleteCount, ...elements): the array left and the
\* elements removed.
Splice(s, start, deleteCount, elements) ==
    LET from == RelIndex(Len(s), start)
        count == Min(Max(deleteCount, 0), Len(s) - from)
    IN  [items |-> SubSeq(s, 1, from) \o elements \o SubSeq(s, from + count + 1, Len(s)),
         removed |-> SubSeq(s, from + 1, from + count)]

\* s.fill(value, start, end)
Filled(s, value, start, end) ==
    LET from == RelIndex(Len(s), start)
        to == RelIndex(Len(s), end)
    IN  [k \in 1..Len(s) |-> IF from < k /\ k <= to THEN value ELSE s[k]]

\* s.reverse()
Reversed(s) == [k \in 1..Len(s) |-> s[Len(s) + 1 - k]]

\* Each mutator, called with elements from E on a container that the call
\* leaves with at most n elements.
PushOn(E, n) ==
    /\ pc = "idle"
    /\ \E elements \in SeqsUpTo(E, MaxArgs) :
          /\ Len(items) + Len(elements) <= n
          /\ Complete("push", [elements |-> elements], items \o elements, TRUE,
                      Len(items) + Len(elements), FALSE)

InsertOn(E, n) ==
    /\ pc = "idle"
    /\ Len(items) < n
    /\ \E element \in E, index \in IndexArgs(n) :
          Complete("insert", [element |-> element, index |-> index],
                   Splice(items, index, 0, <<element>>).items, TRUE, Undefined, FALSE)

Pop ==
    /\ pc = "idle"
    /\ Complete("pop", <<>>, SubSeq(items, 1, Len(items) - 1), TRUE,
                At(items, Len(items) - 1), FALSE)

RemoveOn(n) ==
    /\ pc = "idle"
    /\ \E index \in IndexArgs(n) :
          LET r == Splice(items, index, 1, <<>>)
          IN  Complete("remove", [index |-> index], r.items, TRUE, At(r.removed, 0), FALSE)

Shift ==
    /\ pc = "idle"
    /\ Complete("shift", <<>>, SubSeq(items, 2, Len(items)), TRUE, At(items, 0), FALSE)

UnshiftOn(E, n) ==
    /\ pc = "idle"
    /\ \E elements \in SeqsUpTo(E, MaxArgs) :
          /\ Len(items) + Len(elements) <= n
          /\ Complete("unshift", [elements |-> elements], elements \o items, TRUE,
                      Len(items) + Len(elements), FALSE)

FillOn(E, n) ==
    /\ pc = "idle"
    /\ \E value \in E, start \in IndexArgs(n), end \in IndexArgs(n) :
          Complete("fill", [value |-> value, start |-> start, end |-> end],
                   Filled(items, value, start, end), TRUE, "this", FALSE)

Reverse ==
    /\ pc = "idle"
    /\ Complete("reverse", <<>>, Reversed(items), TRUE, "this", FALSE)

\* merge and radix assign this.items the array they built; mergeSort hands
\* an array of at most one element back as it is, and radixSort builds one
\* array per digit.
SortsInPlace(s, method) ==
    CASE method = "merge" -> Len(s) <= 1
      [] method = "radix" -> ~IsRadixSortable(s) \/ MaxDigits(s) <= 0
      [] OTHER -> TRUE

SortList ==
    /\ pc = "idle"
    /\ \E directionOrCompare \in Directions \cup Functions,
          method \in Methods \cup {"default"} :
          \E r \in SortOutcomes(items, directionOrCompare, method) :
              Complete("sortList", [directionOrCompare |-> directionOrCompare,
                                    method |-> method],
                       r.items, SortsInPlace(items, method), "this", r.threw)

Push == PushOn(ListElems, MaxListLen)
Insert == InsertOn(ListElems, MaxListLen)
RemoveAt == RemoveOn(MaxListLen)
Unshift == UnshiftOn(ListElems, MaxListLen)
Fill == FillOn(ListElems, MaxListLen)

\* get length
ListLength == Len(items)

\* ---- C13
Mutators == {"push", "pop", "insert", "remove", "shift", "unshift",
             "fill", "reverse", "rotate", "sortList"}
MutatorCalled == pc = "done" /\ op \in Mutators

\* C13: after every push, pop, insert, remove, shift, unshift, fill, reverse,
\* rotate and sort, on any container (an empty one, and insert and remove at
\* out-of-range indices included), length is the number of elements held, at
\* the indices 0..length-1.  push, unshift and insert grow length by the
\* number of elements added; pop, shift and a remove at an index in range
\* shrink it by one (pop and shift leave an empty container empty); fill,
\* reverse, rotate and sort leave it unchanged.
C13_LengthTracksMutations ==
    MutatorCalled =>
        LET n == Len(call.before)
        IN  /\ ListLength >= 0
            /\ DOMAIN items = 1..ListLength
            /\ \A k \in 0..(ListLength - 1) : At(items, k) \in ListElems
            /\ CASE op \in {"push", "unshift"} ->
                      ListLength = n + Len(call.args.elements)
                 [] op = "insert" -> ListLength = n + 1
                 [] op \in {"pop", "shift"} ->
                      ListLength = IF n = 0 THEN 0 ELSE n - 1
                 [] op = "remove" ->
                      IF 0 <= call.args.index /\ call.args.index < n
                        THEN ListLength = n - 1
                        ELSE ListLength \in {n - 1, n}
                 [] OTHER -> ListLength = n

\* insert beyond the end of a container of two elements
C13_Witness ==
    /\ MutatorCalled
    /\ op = "insert"
    /\ Len(call.before) = 2
    /\ call.args.index > 2
    /\ ListLength = 3

\* ---------------------------------------------- combinations, permutations
\* combine(start, current) of combinations(k), with its for loop from index idx on;
\* the result is what the calls push, in order.
RECURSIVE Combine(_, _, _, _)
RECURSIVE CombineLoopRepeat(_, _, _, _)
RECURSIVE CombineLoop(_, _, _, _)
CombineLoopRepeat(s, k, idx, current) ==
    IF idx < Len(s)
      THEN Combine(s, k, idx, Append(current, At(s, idx)))
             \o CombineLoopRepeat(s, k, idx + 1, current)
      ELSE <<>>
CombineLoop(s, k, idx, current) ==
    IF idx < Len(s)
      THEN Combine(s, k, idx + 1, Append(current, At(s, idx)))
             \o CombineLoop(s, k, idx + 1, current)
      ELSE <<>>
Combine(s, k, start, current) ==
    IF Len(current) = k THEN <<current>> ELSE CombineLoop(s, k, start, current)

Combinations(s, k) == Combine(s, k, 0, <<>>)

\* [this.items[i], ...perm] for every perm of perms
PrependAll(x, perms) == [j \in 1..Len(perms) |-> <<x>> \o perms[j]]

\* permutations(), with its for loop from index idx on.
RECURSIVE PermutationsOf(_)
RECURSIVE PermutationsLoop(_, _)
PermutationsLoop(s, idx) ==
    IF idx < Len(s)
      THEN LET rest == JsSlice(s, 0, idx) \o JsSliceFrom(s, idx + 1)
           IN  PrependAll(At(s, idx), PermutationsOf(rest)) \o PermutationsLoop(s, idx + 1)
      ELSE <<>>
PermutationsOf(s) == IF Len(s) = 0 THEN <<(<<>>)>> ELSE PermutationsLoop(s, 0)

\* The k's tried: 0..length and beyond.
CombinationArgs == 0..(MaxListLen + 1)

CallCombinations ==
    /\ pc = "idle"
    /\ \E k \in CombinationArgs : Answer("combinations", [k |-> k], Combinations(items, k))

CallPermutations ==
    /\ pc = "idle"
    /\ Answer("permutations", <<>>, PermutationsOf(items))

\* ---- C15
RECURSIVE Factorial(_)
Factorial(n) == IF n <= 0 THEN 1 ELSE n * Factorial(n - 1)
Binomial(n, k) == Factorial(n) \div (Factorial(k) * Factorial(n - k))

\* The elements of s at the positions S (1-based), in s's order.
PickAt(s, S) ==
    LET f[k \in 0..Len(s)] ==
            IF k = 0 THEN <<>> ELSE IF k \in S THEN Append(f[k - 1], s[k]) ELSE f[k - 1]
    IN  f[Len(s)]
PositionSets(n, k) == {S \in SUBSET (1..n) : Cardinality(S) = k}
Bijections(n) == {p \in [1..n -> 1..n] : \A a, b \in 1..n : p[a] = p[b] => a = b}
Arrange(s, p) == [j \in 1..Len(s) |-> s[p[j]]]

\* C15: for 0 <= k <= length, combinations(k) returns exactly C(length, k)
\* combinations, one per set of k positions, each holding the elements at its
\* positions in their original order; permutations() returns exactly length!
\* orderings, one per arrangement of the positions.
C15_CombinationsAndPermutationsComplete ==
    /\ (pc = "done" /\ op = "combinations" /\ call.args.k <= Len(call.before)) =>
          LET s == call.before
              k == call.args.k
              P == PositionSets(Len(s), k)
          IN  /\ Len(call.ret) = Binomial(Len(s), k)
              /\ \A j \in 1..Len(call.ret) : Len(call.ret[j]) = k
              /\ \A S \in P :
                    Count(call.ret, PickAt(s, S))
                      = Cardinality({T \in P : PickAt(s, T) = PickAt(s, S)})
    /\ (pc = "done" /\ op = "permutations") =>
          LET s == call.before
              B == Bijections(Len(s))
          IN  /\ Len(call.ret) = Factorial(Len(s))
              /\ \A p \in B :
                    Count(call.ret, Arrange(s, p))
                      = Cardinality({q \in B : Arrange(s, q) = Arrange(s, p)})

\* the six pairs of a container of four elements with a repeated one
C15_Witness ==
    /\ pc = "done"
    /\ op = "combinations"
    /\ call.before = <<Num(1), Num(2), Num(1), Str(1)>>
    /\ call.args.k = 2
    /\ Len(call.ret) = 6
    /\ Count(call.ret, <<Num(1), Num(1)>>) = 1

\* ------------------------------------------------------------- dotProduct
\* A number returned by dotProduct, kept in quarters (the product of two
\* numbers kept in halves), or NaN.
Quarters(q) == [type |-> "number", nan |-> FALSE, quarters |-> q]
NaN == [type |-> "number", nan |-> TRUE, quarters |-> 0]

\* sum + value * other.items[index]: a non-numeric string or undefined as a
\* factor gives NaN, and NaN stays.
Accumulate(sum, value, factor) ==
    IF sum.nan \/ factor.type # "number" THEN NaN
    ELSE Quarters(sum.quarters + value.v * factor.v)

\* this.items.reduce(..., 0) from index idx on
RECURSIVE DotReduce(_, _, _, _)
DotReduce(s, other, idx, sum) ==
    IF idx < Len(s)
      THEN DotReduce(s, other, idx + 1, Accumulate(sum, At(s, idx), At(other, idx)))
      ELSE sum

\* dotProduct(other): what it throws or returns, and the two arrays after it.
DotProduct(s, other) ==
    IF Len(s) # Len(other) \/ ~(\A k \in 1..Len(s) : s[k].type = "number")
      THEN [threw |-> TRUE, value |-> NaN, items |-> s, other |-> other]
      ELSE [threw |-> FALSE, value |-> DotReduce(s, other, 0, Quarters(0)),
            items |-> s, other |-> other]

CallDotProduct ==
    /\ pc = "idle"
    /\ \E other \in SeqsUpTo(ListElems, MaxListLen) :
          LET r == DotProduct(items, other)
          IN  Complete("dotProduct", [other |-> other, otherAfter |-> r.other],
                       r.items, TRUE, r.value, r.threw)

\* ---- C16
AllNumbers(s) == \A k \in 1..Len(s) : s[k].type = "number"

\* C16: dotProduct fails with an error whenever the two containers differ in
\* length or either of them, the receiver or the argument, holds a
\* non-numeric element, and leaves both unchanged; it returns a number only
\* when both are numeric and of equal length.
C16_DotProductRejectsNonNumeric ==
    (pc = "done" /\ op = "dotProduct") =>
        LET other == call.args.other
            bad == \/ Len(call.before) # Len(other)
                   \/ ~AllNumbers(call.before)
                   \/ ~AllNumbers(other)
        IN  /\ bad => (call.threw /\ items = call.before /\ call.args.otherAfter = other)
            /\ ~call.threw => (~bad /\ ~call.ret.nan)

\* ------------------------- indexOf, lastIndexOf, reverse and their each twins
\* this.items.indexOf(searchElement, fromIndex)
IndexOf(s, searchElement, fromIndex) ==
    LET from == RelIndex(Len(s), fromIndex)
        hits == {k \in from..(Len(s) - 1) : At(s, k) = searchElement}
    IN  IF hits = {} THEN 0 - 1 ELSE CHOOSE k \in hits : \A h \in hits : k <= h

\* this.items.lastIndexOf(searchElement, fromIndex)
LastIndexOf(s, searchElement, fromIndex) ==
    LET from == IF fromIndex < 0 THEN Len(s) + fromIndex ELSE Min(fromIndex, Len(s) - 1)
        hits == {k \in 0..from : At(s, k) = searchElement}
    IN  IF hits = {} THEN 0 - 1 ELSE CHOOSE k \in hits : \A h \in hits : k >= h

\* each(callback) of indexOfWithEach, from index idx on: iterate returns at
\* once after breakFn; the callback keeps the index of a match and breaks.
RECURSIVE IndexOfEachLoop(_, _, _, _, _, _)
IndexOfEachLoop(s, idx, searchElement, fromIndex, result, broke) ==
    IF idx < Len(s)
      THEN IF ~broke /\ idx >= fromIndex /\ At(s, idx) = searchElement
             THEN IndexOfEachLoop(s, idx + 1, searchElement, fromIndex, idx, TRUE)
             ELSE IndexOfEachLoop(s, idx + 1, searchElement, fromIndex, result, broke)
      ELSE result

IndexOfWithEach(s, searchElement, fromIndex) ==
    IndexOfEachLoop(s, 0, searchElement, fromIndex, 0 - 1, FALSE)

\* each(callback, {reverse: true}) of lastIndexOfWithEach, from index idx
\* down: the callback keeps the index of a match and goes on.
RECURSIVE LastIndexOfEachLoop(_, _, _, _, _)
LastIndexOfEachLoop(s, idx, searchElement, fromIndex, result) ==
    IF idx >= 0
      THEN IF idx <= fromIndex /\ At(s, idx) = searchElement
             THEN LastIndexOfEachLoop(s, idx - 1, searchElement, fromIndex, idx)
             ELSE LastIndexOfEachLoop(s, idx - 1, searchElement, fromIndex, result)
      ELSE result

LastIndexOfWithEach(s, searchElement, fromIndex) ==
    LastIndexOfEachLoop(s, Len(s) - 1, searchElement, fromIndex, 0 - 1)

\* each(value => reversed.unshift(value)) of reverseWithEach, from idx on
RECURSIVE ReverseEachLoop(_, _, _)
ReverseEachLoop(s, idx, reversed) ==
    IF idx < Len(s)
      THEN ReverseEachLoop(s, idx + 1, <<At(s, idx)>> \o reversed)
      ELSE reversed

ReversedWithEach(s) == ReverseEachLoop(s, 0, <<>>)

\* The four searches, each called with its default fromIndex.
CallIndexOf ==
    /\ pc = "idle"
    /\ \E searchElement \in ListElems :
          Answer("indexOf", [searchElement |-> searchElement],
                 IndexOf(items, searchElement, 0))

CallLastIndexOf ==
    /\ pc = "idle"
    /\ \E searchElement \in ListElems :
          Answer("lastIndexOf", [searchElement |-> searchElement],
                 LastIndexOf(items, searchElement, Len(items) - 1))

CallIndexOfWithEach ==
    /\ pc = "idle"
    /\ \E searchElement \in ListElems :
          Answer("indexOfWithEach", [searchElement |-> searchElement],
                 IndexOfWithEach(items, searchElement, 0))

CallLastIndexOfWithEach ==
    /\ pc = "idle"
    /\ \E searchElement \in ListElems :
          Answer("lastIndexOfWithEach", [searchElement |-> searchElement],
                 LastIndexOfWithEach(items, searchElement, Len(items) - 1))

\* reverseWithEach assigns this.items the array it built.
ReverseWithEach ==
    /\ pc = "idle"
    /\ Complete("reverseWithEach", <<>>, ReversedWithEach(items), FALSE, "this", FALSE)

ListInit ==
    /\ items \in SeqsUpTo(ListElems, MaxListLen)
    /\ pc = "idle"
    /\ op = "none"
    /\ reverse = FALSE
    /\ step = 1
    /\ length = 0
    /\ i = 0
    /\ breakLoop = FALSE
    /\ continueLoop = FALSE
    /\ pred = {}
    /\ found = Undefined
    /\ foundIndex = 0 - 1
    /\ visits = <<>>
    /\ last = NoSort
    /\ ExtIdle

ListNext ==
    \/ GetMode
    \/ Rotate
    \/ Push
    \/ Insert
    \/ Pop
    \/ RemoveAt
    \/ Shift
    \/ Unshift
    \/ Fill
    \/ Reverse
    \/ SortList
    \/ CallCombinations
    \/ CallPermutations
    \/ CallDotProduct
    \/ CallIndexOf
    \/ CallLastIndexOf
    \/ CallIndexOfWithEach
    \/ CallLastIndexOfWithEach
    \/ ReverseWithEach
    \/ Again

ListSpec == ListInit /\ [][ListNext]_vars

\* ------------------------------------------- the arrays the caller holds
MaxAliasLen == 2     \* longest array where the caller's arrays are followed

AliasElems == {Num(1), Num(2)}

NewListKeepsArray(firstArg) == [items |-> firstArg, sameArray |-> TRUE]
\* new List(firstArg) with an array: this.items = [...firstArg], a new array
\* of the same elements.
NewList(firstArg) == [items |-> firstArg, sameArray |-> FALSE]

\* toArray(): this.items.slice(), a new array of the same elements.
ToArray(s) == [items |-> JsSliceFrom(s, 0), sameArray |-> FALSE]

\* The caller calls new List(argArr).
Construct ==
    /\ pc = "new"
    /\ LET r == NewList(argArr)
       IN  /\ items' = r.items
           /\ shared' = IF r.sameArray THEN {"arg"} ELSE {}
    /\ call' = [op |-> "constructor", args |-> <<>>, before |-> items, ret |-> "this",
                threw |-> FALSE, argBefore |-> argArr, outBefore |-> outArr]
    /\ pc' = "done"
    /\ op' = "constructor"
    /\ UNCHANGED <<reverse, step, length, i, breakLoop, continueLoop,
                   pred, found, foundIndex, visits, last, argArr, outArr>>

\* The caller keeps the array toArray() returns in outArr.
CallToArray ==
    /\ pc = "idle"
    /\ LET r == ToArray(items)
       IN  /\ outArr' = r.items
           /\ shared' = IF r.sameArray THEN shared \cup {"out"} ELSE shared \ {"out"}
           /\ call' = [op |-> "toArray", args |-> <<>>, before |-> items, ret |-> r.items,
                       threw |-> FALSE, argBefore |-> argArr, outBefore |-> outArr]
    /\ pc' = "done"
    /\ op' = "toArray"
    /\ UNCHANGED <<items, reverse, step, length, i, breakLoop, continueLoop,
                   pred, found, foundIndex, visits, last, argArr>>

\* What one write of the caller's can make of its array a: a.push(x),
\* a.pop(), a[k] = x.
Written(a, E, n) ==
    {a \o <<x>> : x \in IF Len(a) < n THEN E ELSE {}}
      \cup {SubSeq(a, 1, Len(a) - 1) : k \in IF Len(a) > 0 THEN {0} ELSE {}}
      \cup {[a EXCEPT ![p[1]] = p[2]] : p \in {q \in (1..Len(a)) \X E : a[q[1]] # q[2]}}

\* The caller writes into the array it handed to the constructor; the write
\* shows in every array that is the same array.
ArgWrite ==
    /\ pc = "idle"
    /\ \E b \in Written(argArr, AliasElems, MaxAliasLen) :
          /\ argArr' = b
          /\ items' = IF "arg" \in shared THEN b ELSE items
          /\ outArr' = IF {"arg", "out"} \subseteq shared THEN b ELSE outArr
    /\ call' = [op |-> "argWrite", args |-> <<>>, before |-> items, ret |-> Undefined,
                threw |-> FALSE, argBefore |-> argArr, outBefore |-> outArr]
    /\ pc' = "done"
    /\ op' = "argWrite"
    /\ UNCHANGED <<reverse, step, length, i, breakLoop, continueLoop,
                   pred, found, foundIndex, visits, last, shared>>

\* The caller writes into the array toArray() returned.
OutWrite ==
    /\ pc = "idle"
    /\ \E b \in Written(outArr, AliasElems, MaxAliasLen) :
          /\ outArr' = b
          /\ items' = IF "out" \in shared THEN b ELSE items
          /\ argArr' = IF {"arg", "out"} \subseteq shared THEN b ELSE argArr
    /\ call' = [op |-> "outWrite", args |-> <<>>, before |-> items, ret |-> Undefined,
                threw |-> FALSE, argBefore |-> argArr, outBefore |-> outArr]
    /\ pc' = "done"
    /\ op' = "outWrite"
    /\ UNCHANGED <<reverse, step, length, i, breakLoop, continueLoop,
                   pred, found, foundIndex, visits, last, shared>>

AliasInit ==
    /\ argArr \in SeqsUpTo(AliasElems, MaxAliasLen)
    /\ items = <<>>
    /\ pc = "new"
    /\ op = "none"
    /\ reverse = FALSE
    /\ step = 1
    /\ length = 0
    /\ i = 0
    /\ breakLoop = FALSE
    /\ continueLoop = FALSE
    /\ pred = {}
    /\ found = Undefined
    /\ foundIndex = 0 - 1
    /\ visits = <<>>
    /\ last = NoSort
    /\ call = NoCall
    /\ outArr = <<>>
    /\ shared = {}

AliasNext ==
    \/ Construct
    \/ CallToArray
    \/ ArgWrite
    \/ OutWrite
    \/ PushOn(AliasElems, MaxAliasLen)
    \/ InsertOn(AliasElems, MaxAliasLen)
    \/ Pop
    \/ RemoveOn(MaxAliasLen)
    \/ Shift
    \/ UnshiftOn(AliasElems, MaxAliasLen)
    \/ FillOn(AliasElems, MaxAliasLen)
    \/ Reverse
    \/ RotateOn(MaxAliasLen)
    \/ SortList
    \/ ReverseWithEach
    \/ Again

AliasSpec == AliasInit /\ [][AliasNext]_vars

\* ---- C14
\* C14: the container shares no array with its caller.  After new List(arr),
\* a mutation of the container leaves arr as it was and a write into arr
\* leaves the container as it was; the same holds of the array toArray()
\* returned.
C14_NoSharedArray ==
    pc = "done" =>
        /\ op \in Mutators \cup {"reverseWithEach"} =>
              (argArr = call.argBefore /\ outArr = call.outBefore)
        /\ op \in {"argWrite", "outWrite"} => items = call.before
        /\ op = "constructor" => (items = argArr /\ argArr = call.argBefore)
        /\ op = "toArray" => (outArr = items /\ items = call.before)

\* the container was mutated and arr keeps its elements
C14_Witness ==
    /\ pc = "done"
    /\ op = "push"
    /\ items # call.before
    /\ call.before = call.argBefore
    /\ argArr = <<Num(1)>>
    /\ outArr = <<Num(1), Num(2)>>

====
